---- MODULE Spec2Model ----
(***************************************************************************)
(* A model of kubectlcmdprocessor.parser.KubectlParser and of the plugin   *)
(* kubectlcmdprocessor.plugin.KubectlCmdProcessor that calls it.           *)
(*                                                                         *)
(* A Python str is modelled as the sequence of its characters, each        *)
(* character a one-character TLA+ string, so that startswith, slicing,     *)
(* split, count, lower and join are computed as the code computes them.    *)
(* Python's None is the value None below, which is no sequence of          *)
(* characters and so differs from every str, the empty str included.       *)
(* Cursors (i, index) are 0-based as in the source; At(seq, k) reads       *)
(* seq[k] of the source.                                                   *)
(***************************************************************************)
EXTENDS Integers, Sequences, FiniteSets, TLC

VARIABLES
    command,         \* self.command of the parser instance
    pc,              \* where the instance is: "idle", "scan", "classify", "raised"
    command_string,  \* the argument of the current (or last) parse call
    tokens,          \* _parse_tokens: the token list
    i,               \* _parse_tokens: the cursor
    result,          \* what the last parse call returned (NoResult before the first)
    calls,           \* parse calls started so far
    stale,           \* the namespace self.command held when the current call started
    budget,          \* parse calls the environment makes in this run
    family,          \* which bounded input set the environment draws from
    invocations,     \* the plugin: each tool_pre_invoke call, its payload and position
    parsers,         \* the plugin: the KubectlParser each invocation constructs
    state,           \* the plugin: context.global_context.state of each context
    held             \* the structures parse handed to a caller that keeps them

vars == <<command, pc, command_string, tokens, i, result, calls, stale, budget, family,
          invocations, parsers, state, held>>

-----------------------------------------------------------------------------
(* Python values *)

None == <<"None">>

\* no parse call has returned yet (a record, as a returned structure is one)
NoResult == [pending |-> TRUE]

IndexError == <<"IndexError">>

\* list[k] of the source (0-based); an index out of range raises IndexError
At(seq, k) == IF k >= 0 /\ k < Len(seq) THEN seq[k + 1] ELSE IndexError

\* seq[k:] of the source
SliceFrom(seq, k) == IF k >= Len(seq) THEN <<>> ELSE SubSeq(seq, k + 1, Len(seq))

\* seq[-1] of the source, on a non-empty list
Last(seq) == seq[Len(seq)]

-----------------------------------------------------------------------------
(* str methods *)

Whitespace == {" ", "\t", "\n"}

isspace(char) == char \in Whitespace

startswith(s, prefix) ==
    /\ Len(s) >= Len(prefix)
    /\ SubSeq(s, 1, Len(prefix)) = prefix

RECURSIVE lstrip(_)
lstrip(s) == IF s # <<>> /\ isspace(Head(s)) THEN lstrip(Tail(s)) ELSE s

RECURSIVE rstrip(_)
rstrip(s) ==
    IF s # <<>> /\ isspace(s[Len(s)]) THEN rstrip(SubSeq(s, 1, Len(s) - 1)) ELSE s

strip(s) == rstrip(lstrip(s))

\* s.count(char) for a one-character argument
count(s, char) == Cardinality({k \in 1..Len(s) : s[k] = char})

\* char in s
contains(s, char) == \E k \in 1..Len(s) : s[k] = char

UpperChars == <<"A", "B", "C", "D", "E", "F", "G", "H", "I", "J", "K", "L", "M",
                "N", "O", "P", "Q", "R", "S", "T", "U", "V", "W", "X", "Y", "Z">>

LowerChars == <<"a", "b", "c", "d", "e", "f", "g", "h", "i", "j", "k", "l", "m",
                "n", "o", "p", "q", "r", "s", "t", "u", "v", "w", "x", "y", "z">>

lowerchar(char) ==
    IF \E k \in 1..Len(UpperChars) : UpperChars[k] = char
    THEN LowerChars[CHOOSE k \in 1..Len(UpperChars) : UpperChars[k] = char]
    ELSE char

lower(s) == [k \in 1..Len(s) |-> lowerchar(s[k])]

\* the position (1-based) of the first "=" of s, which holds one
FirstEq(s) == CHOOSE k \in 1..Len(s) : s[k] = "=" /\ \A j \in 1..(k - 1) : s[j] # "="

\* name, value = flag.split("=", 1), for a flag that holds "="
split_name(flag) == SubSeq(flag, 1, FirstEq(flag) - 1)

split_value(flag) == SubSeq(flag, FirstEq(flag) + 1, Len(flag))

\* sep.join(parts)
RECURSIVE join(_, _)
join(sep, parts) ==
    IF parts = <<>> THEN <<>>
    ELSE IF Len(parts) = 1 THEN parts[1]
    ELSE parts[1] \o sep \o join(sep, Tail(parts))

-----------------------------------------------------------------------------
(* _tokenize *)

SingleQuote == "'"

DoubleQuote == "\""

\* a tokenizer that knows the double quote only
QuoteChars_double == {DoubleQuote}

QuoteChars == {DoubleQuote, SingleQuote}

\* the closing quote flushing the token it ends, empty or not
TokenizeChar_flush(st, char) ==
    IF ~st.in_quotes
    THEN IF char \in QuoteChars
         THEN [st EXCEPT !.in_quotes = TRUE, !.quote_char = char]
         ELSE IF isspace(char)
              THEN IF st.current_token # <<>>
                   THEN [st EXCEPT !.tokens = Append(st.tokens, st.current_token),
                                   !.current_token = <<>>]
                   ELSE st
              ELSE [st EXCEPT !.current_token = Append(st.current_token, char)]
    ELSE IF char = st.quote_char
         THEN [st EXCEPT !.in_quotes = FALSE, !.quote_char = None,
                         !.tokens = Append(st.tokens, st.current_token),
                         !.current_token = <<>>]
         ELSE [st EXCEPT !.current_token = Append(st.current_token, char)]

\* One iteration of the character loop: the scanner's state is
\* [tokens, current_token, in_quotes, quote_char].
TokenizeChar(st, char) ==
    IF ~st.in_quotes
    THEN IF char \in QuoteChars
         THEN [st EXCEPT !.in_quotes = TRUE, !.quote_char = char]
         ELSE IF isspace(char)
              THEN IF st.current_token # <<>>
                   THEN [st EXCEPT !.tokens = Append(st.tokens, st.current_token),
                                   !.current_token = <<>>]
                   ELSE st
              ELSE [st EXCEPT !.current_token = Append(st.current_token, char)]
    ELSE IF char = st.quote_char
         THEN [st EXCEPT !.in_quotes = FALSE, !.quote_char = None]
         ELSE [st EXCEPT !.current_token = Append(st.current_token, char)]

\* The while loop over command_string[lo .. hi-1], from scanner state st.  The
\* characters are taken in order, the left half before the right one; the
\* range is halved, and the left half's state looked at before the right half
\* starts, only to keep TLC's evaluation shallow.
RECURSIVE TokenizeLoop(_, _, _, _)
TokenizeLoop(st, s, lo, hi) ==
    IF lo >= hi THEN st
    ELSE IF hi = lo + 1 THEN TokenizeChar(st, At(s, lo))
    ELSE LET mid == (lo + hi) \div 2
             left == TokenizeLoop(st, s, lo, mid)
         IN IF left.in_quotes \in BOOLEAN THEN TokenizeLoop(left, s, mid, hi) ELSE left

_tokenize(s) ==
    LET st == TokenizeLoop([tokens |-> <<>>, current_token |-> <<>>,
                            in_quotes |-> FALSE, quote_char |-> None], s, 0, Len(s))
    IN IF st.current_token # <<>> THEN Append(st.tokens, st.current_token)
       ELSE st.tokens

-----------------------------------------------------------------------------
(* KubectlParser: the class's tables *)

VERBS == {
    <<"g", "e", "t">>,
    <<"d", "e", "s", "c", "r", "i", "b", "e">>,
    <<"c", "r", "e", "a", "t", "e">>,
    <<"a", "p", "p", "l", "y">>,
    <<"d", "e", "l", "e", "t", "e">>,
    <<"e", "d", "i", "t">>,
    <<"p", "a", "t", "c", "h">>,
    <<"r", "e", "p", "l", "a", "c", "e">>,
    <<"e", "x", "p", "o", "s", "e">>,
    <<"r", "u", "n">>,
    <<"s", "e", "t">>,
    <<"e", "x", "p", "l", "a", "i", "n">>,
    <<"l", "o", "g", "s">>,
    <<"a", "t", "t", "a", "c", "h">>,
    <<"e", "x", "e", "c">>,
    <<"p", "o", "r", "t", "-", "f", "o", "r", "w", "a", "r", "d">>,
    <<"p", "r", "o", "x", "y">>,
    <<"c", "p">>,
    <<"a", "u", "t", "h">>,
    <<"s", "c", "a", "l", "e">>,
    <<"a", "u", "t", "o", "s", "c", "a", "l", "e">>,
    <<"r", "o", "l", "l", "o", "u", "t">>,
    <<"l", "a", "b", "e", "l">>,
    <<"a", "n", "n", "o", "t", "a", "t", "e">>,
    <<"c", "o", "m", "p", "l", "e", "t", "i", "o", "n">>,
    <<"t", "o", "p">>,
    <<"d", "r", "a", "i", "n">>,
    <<"c", "o", "r", "d", "o", "n">>,
    <<"u", "n", "c", "o", "r", "d", "o", "n">>,
    <<"c", "l", "u", "s", "t", "e", "r", "-", "i", "n", "f", "o">>,
    <<"c", "o", "n", "f", "i", "g">>,
    <<"p", "l", "u", "g", "i", "n">>,
    <<"v", "e", "r", "s", "i", "o", "n">>,
    <<"a", "p", "i", "-", "r", "e", "s", "o", "u", "r", "c", "e", "s">>,
    <<"a", "p", "i", "-", "v", "e", "r", "s", "i", "o", "n", "s">>,
    <<"c", "e", "r", "t", "i", "f", "i", "c", "a", "t", "e">>,
    <<"w", "a", "i", "t">>,
    <<"d", "e", "b", "u", "g">>,
    <<"t", "a", "i", "n", "t">>
}

DIRECT_ARG_VERBS == {
    <<"l", "o", "g", "s">>,
    <<"e", "x", "e", "c">>,
    <<"a", "t", "t", "a", "c", "h">>,
    <<"p", "o", "r", "t", "-", "f", "o", "r", "w", "a", "r", "d">>,
    <<"c", "p">>,
    <<"d", "e", "b", "u", "g">>,
    <<"a", "p", "p", "l", "y">>
}

\* the table without its last entry
value_flags_short == {
    <<"-", "o">>,
    <<"-", "-", "o", "u", "t", "p", "u", "t">>,
    <<"-", "w">>,
    <<"-", "-", "w", "a", "t", "c", "h">>,
    <<"-", "-", "s", "o", "r", "t", "-", "b", "y">>,
    <<"-", "-", "f", "i", "e", "l", "d", "-", "s", "e", "l", "e", "c", "t", "o", "r">>,
    <<"-", "-", "k", "u", "b", "e", "c", "o", "n", "f", "i", "g">>,
    <<"-", "-", "c", "o", "n", "t", "e", "x", "t">>,
    <<"-", "-", "c", "l", "u", "s", "t", "e", "r">>,
    <<"-", "-", "u", "s", "e", "r">>,
    <<"-", "-", "c", "e", "r", "t", "i", "f", "i", "c", "a", "t", "e", "-", "a", "u", "t", "h", "o", "r", "i", "t", "y">>,
    <<"-", "-", "c", "l", "i", "e", "n", "t", "-", "c", "e", "r", "t", "i", "f", "i", "c", "a", "t", "e">>,
    <<"-", "-", "c", "l", "i", "e", "n", "t", "-", "k", "e", "y">>,
    <<"-", "-", "t", "o", "k", "e", "n">>,
    <<"-", "-", "a", "s">>,
    <<"-", "-", "a", "s", "-", "g", "r", "o", "u", "p">>,
    <<"-", "-", "c", "a", "c", "h", "e", "-", "d", "i", "r">>,
    <<"-", "-", "m", "a", "t", "c", "h", "-", "s", "e", "r", "v", "e", "r", "-", "v", "e", "r", "s", "i", "o", "n">>,
    <<"-", "-", "r", "e", "q", "u", "e", "s", "t", "-", "t", "i", "m", "e", "o", "u", "t">>,
    <<"-", "-", "s", "e", "r", "v", "e", "r">>,
    <<"-", "s">>,
    <<"-", "c">>,
    <<"-", "p">>,
    <<"-", "f">>,
    <<"-", "k">>
}

value_flags == {
    <<"-", "o">>,
    <<"-", "-", "o", "u", "t", "p", "u", "t">>,
    <<"-", "w">>,
    <<"-", "-", "w", "a", "t", "c", "h">>,
    <<"-", "-", "s", "o", "r", "t", "-", "b", "y">>,
    <<"-", "-", "f", "i", "e", "l", "d", "-", "s", "e", "l", "e", "c", "t", "o", "r">>,
    <<"-", "-", "k", "u", "b", "e", "c", "o", "n", "f", "i", "g">>,
    <<"-", "-", "c", "o", "n", "t", "e", "x", "t">>,
    <<"-", "-", "c", "l", "u", "s", "t", "e", "r">>,
    <<"-", "-", "u", "s", "e", "r">>,
    <<"-", "-", "c", "e", "r", "t", "i", "f", "i", "c", "a", "t", "e", "-", "a", "u", "t", "h", "o", "r", "i", "t", "y">>,
    <<"-", "-", "c", "l", "i", "e", "n", "t", "-", "c", "e", "r", "t", "i", "f", "i", "c", "a", "t", "e">>,
    <<"-", "-", "c", "l", "i", "e", "n", "t", "-", "k", "e", "y">>,
    <<"-", "-", "t", "o", "k", "e", "n">>,
    <<"-", "-", "a", "s">>,
    <<"-", "-", "a", "s", "-", "g", "r", "o", "u", "p">>,
    <<"-", "-", "c", "a", "c", "h", "e", "-", "d", "i", "r">>,
    <<"-", "-", "m", "a", "t", "c", "h", "-", "s", "e", "r", "v", "e", "r", "-", "v", "e", "r", "s", "i", "o", "n">>,
    <<"-", "-", "r", "e", "q", "u", "e", "s", "t", "-", "t", "i", "m", "e", "o", "u", "t">>,
    <<"-", "-", "s", "e", "r", "v", "e", "r">>,
    <<"-", "s">>,
    <<"-", "c">>,
    <<"-", "p">>,
    <<"-", "f">>,
    <<"-", "k">>,
    <<"-", "-", "p", "a", "t", "c", "h">>
}

selector_operators == {
    <<"a", "n", "d">>,
    <<"o", "r">>,
    <<"!", "=">>,
    <<"=", "=">>,
    <<"=">>,
    <<"i", "n">>,
    <<"n", "o", "t", "i", "n">>,
    <<",">>
}

\* any(op in next_token for op in ["=", "!", "<", ">", ","])
operator_chars == {"=", "!", "<", ">", ","}

Dash == <<"-">>

DashDash == <<"-", "-">>

Kubectl == <<"k", "u", "b", "e", "c", "t", "l">>

\* the flag names the code compares with
NamespaceFlags == {<<"-", "n">>, <<"-", "-", "n", "a", "m", "e", "s", "p", "a", "c", "e">>}

LongNamespace == <<"-", "-", "n", "a", "m", "e", "s", "p", "a", "c", "e">>

SelectorFlags == {<<"-", "l">>, <<"-", "-", "s", "e", "l", "e", "c", "t", "o", "r">>}

InWords == {<<"i", "n">>, <<"n", "o", "t", "i", "n">>}

-----------------------------------------------------------------------------
(* reset *)

EmptyCommand ==
    [verb |-> None, resource |-> None, namespace |-> None, args |-> <<>>, flags |-> <<>>]

\* a reset that leaves the instance's command as it is
reset_keep(old) == old

\* self.command = {...}: whatever the instance held (old) is dropped
reset(old) == EmptyCommand

\* return {"command": self.command}: the caller is handed the dict the
\* instance holds, not a copy.  A handed structure is followed as what it held
\* when it was returned, what it holds now, and whether self.command is still
\* bound to it.
Handed(cmd) == [returned |-> cmd, now |-> cmd, bound |-> TRUE]

\* an assignment into self.command shows in every structure still bound to it
Written(structures, cmd) ==
    [k \in DOMAIN structures |->
        IF structures[k].bound THEN [structures[k] EXCEPT !.now = cmd] ELSE structures[k]]

\* a reset that empties the dict in place and keeps it
Rebind_inplace(structures) == structures

\* self.command = {...} binds a new dict; the one handed out before is left
Rebind(structures) == [k \in DOMAIN structures |-> [structures[k] EXCEPT !.bound = FALSE]]

-----------------------------------------------------------------------------
(* The flag parsers.  Each takes the instance's command and returns         *)
(* [command, consumed, raised]: the command after the call's side effects,  *)
(* the returned count, and whether the call raised (an index out of range). *)

\* an entry that records the name without its first character
Flag_bare(name, value) == [name |-> SliceFrom(name, 1), value |-> value]

\* {"name": ..., "value": ...}
Flag(name, value) == [name |-> name, value |-> value]

\* an entry put in front of the list
AddFlag_front(cmd, name, value) == [cmd EXCEPT !.flags = <<Flag(name, value)>> \o cmd.flags]

AddFlag(cmd, name, value) == [cmd EXCEPT !.flags = Append(cmd.flags, Flag(name, value))]

Returned(cmd, n) == [command |-> cmd, consumed |-> n, raised |-> FALSE]

Raised(cmd) == [command |-> cmd, consumed |-> 0, raised |-> TRUE]

\* the bound test off by one: index + 1 <= len(tokens)
HasNextToken_offbyone(tokens_, index) == index + 1 <= Len(tokens_)

\* index + 1 < len(tokens)
HasNextToken(tokens_, index) == index + 1 < Len(tokens_)

\* token.count("(") - token.count(")")
ParenBalance(token) == count(token, "(") - count(token, ")")

is_operator(next_token) ==
    \/ lower(next_token) \in selector_operators
    \/ \E op \in operator_chars : contains(next_token, op)
    \/ startswith(next_token, <<"(">>)

\* a collection that stops before the first token starting with "-", whatever
\* the depth
SelectorLoop_flagstop(tokens_, k, paren_depth, selector_tokens) ==
    LET dashes == {d \in (k + 1)..Len(tokens_) : startswith(tokens_[d], Dash)}
        stop == IF dashes = {} THEN Len(tokens_) + 1
                ELSE CHOOSE d \in dashes : \A e \in dashes : d <= e
    IN selector_tokens \o SubSeq(tokens_, k + 1, stop - 1)

\* a collection that takes every token up to the end of the input
SelectorLoop_greedy(tokens_, k, paren_depth, selector_tokens) ==
    selector_tokens \o SubSeq(tokens_, k + 1, Len(tokens_))

\* The while loop of _parse_selector_flag, from cursor k with the fragments
\* collected so far; returns the fragments collected when the loop ends.
RECURSIVE SelectorLoop(_, _, _, _)
SelectorLoop(tokens_, k, paren_depth, selector_tokens) ==
    IF ~(k < Len(tokens_)) THEN selector_tokens
    ELSE LET token == At(tokens_, k) IN
         IF startswith(token, Dash) /\ paren_depth = 0 THEN selector_tokens
         ELSE LET collected == Append(selector_tokens, token)
                  depth == paren_depth + ParenBalance(token)
                  k2 == k + 1
              IN IF depth = 0 /\ collected # <<>> /\ k2 < Len(tokens_)
                 THEN LET next_token == At(tokens_, k2) IN
                      IF startswith(next_token, Dash) THEN collected
                      ELSE IF ~is_operator(next_token)
                                /\ lower(Last(collected)) \notin InWords
                           THEN collected
                           ELSE SelectorLoop(tokens_, k2, depth, collected)
                 ELSE SelectorLoop(tokens_, k2, depth, collected)

\* a selector flag that reports 2 tokens whenever it has a value
_parse_selector_flag_two(cmd, flag, tokens_, index) ==
    IF index + 1 >= Len(tokens_)
    THEN Returned(AddFlag(cmd, flag, None), 1)
    ELSE LET selector_tokens == SelectorLoop(tokens_, index + 1, 0, <<>>) IN
         IF selector_tokens # <<>>
         THEN Returned(AddFlag(cmd, flag, join(<<" ">>, selector_tokens)), 2)
         ELSE Returned(AddFlag(cmd, flag, None), 1)

_parse_selector_flag(cmd, flag, tokens_, index) ==
    IF index + 1 >= Len(tokens_)
    THEN Returned(AddFlag(cmd, flag, None), 1)
    ELSE LET selector_tokens == SelectorLoop(tokens_, index + 1, 0, <<>>) IN
         IF selector_tokens # <<>>
         THEN Returned(AddFlag(cmd, flag, join(<<" ">>, selector_tokens)),
                       1 + Len(selector_tokens))
         ELSE Returned(AddFlag(cmd, flag, None), 1)

\* The copy of the loop in the flag=value branch of _parse_single_flag.
RECURSIVE EqSelectorLoop(_, _, _, _)
EqSelectorLoop(tokens_, k, paren_depth, selector_tokens) ==
    IF ~(k < Len(tokens_)) THEN selector_tokens
    ELSE LET token == At(tokens_, k) IN
         IF startswith(token, Dash) /\ paren_depth = 0 THEN selector_tokens
         ELSE LET collected == Append(selector_tokens, token)
                  depth == paren_depth + ParenBalance(token)
                  k2 == k + 1
              IN IF depth = 0 /\ collected # <<>> /\ k2 < Len(tokens_)
                 THEN LET next_token == At(tokens_, k2) IN
                      IF startswith(next_token, Dash) THEN collected
                      ELSE IF ~is_operator(next_token)
                                /\ (IF Len(collected) > 0 THEN lower(Last(collected))
                                    ELSE <<>>) \notin InWords
                           THEN collected
                           ELSE EqSelectorLoop(tokens_, k2, depth, collected)
                 ELSE EqSelectorLoop(tokens_, k2, depth, collected)

\* the namespace branch reporting no token consumed when the flag has no value
ParseNamespaceFlag_zero(cmd, flag, tokens_, index) ==
    IF HasNextToken(tokens_, index) /\ ~startswith(At(tokens_, index + 1), Dash)
    THEN Returned(AddFlag([cmd EXCEPT !.namespace = At(tokens_, index + 1)],
                          flag, At(tokens_, index + 1)), 2)
    ELSE Returned(AddFlag(cmd, flag, None), 0)

\* the branch for -n and --namespace
ParseNamespaceFlag(cmd, flag, tokens_, index) ==
    IF HasNextToken(tokens_, index) /\ At(tokens_, index + 1) = IndexError
    THEN Raised(cmd)
    ELSE IF HasNextToken(tokens_, index) /\ ~startswith(At(tokens_, index + 1), Dash)
         THEN Returned(AddFlag([cmd EXCEPT !.namespace = At(tokens_, index + 1)],
                               flag, At(tokens_, index + 1)), 2)
         ELSE Returned(AddFlag(cmd, flag, None), 1)

\* the branch for flag=value
ParseEqualsFlag(cmd, flag, tokens_, index) ==
    LET name == split_name(flag)
        value == split_value(flag)
        cmd1 == IF name = LongNamespace THEN [cmd EXCEPT !.namespace = value] ELSE cmd
    IN IF name \in SelectorFlags
       THEN LET selector_tokens ==
                    EqSelectorLoop(tokens_, index + 1, ParenBalance(value), <<value>>)
            IN Returned(AddFlag(cmd1, name, join(<<" ">>, selector_tokens)),
                        1 + Len(selector_tokens) - 1)
       ELSE Returned(AddFlag(cmd1, name, value), 1)

\* the last branches: a flag of the value table followed by a value, or a bare flag
ParseValueFlag(cmd, flag, tokens_, index) ==
    IF HasNextToken(tokens_, index) /\ At(tokens_, index + 1) = IndexError
    THEN Raised(cmd)
    ELSE IF /\ HasNextToken(tokens_, index)
            /\ ~startswith(At(tokens_, index + 1), Dash)
            /\ flag \in value_flags
         THEN Returned(AddFlag(cmd, flag, At(tokens_, index + 1)), 2)
         ELSE Returned(AddFlag(cmd, flag, None), 1)

_parse_single_flag(cmd, flag, tokens_, index) ==
    IF flag \in NamespaceFlags THEN ParseNamespaceFlag(cmd, flag, tokens_, index)
    ELSE IF contains(flag, "=") THEN ParseEqualsFlag(cmd, flag, tokens_, index)
    ELSE IF flag \in SelectorFlags THEN _parse_selector_flag(cmd, flag, tokens_, index)
    ELSE ParseValueFlag(cmd, flag, tokens_, index)

\* flag.startswith("-") and not flag.startswith("--") and len(flag) > 2 and flag[2] != "="
IsCombined(flag) ==
    /\ startswith(flag, Dash)
    /\ ~startswith(flag, DashDash)
    /\ Len(flag) > 2
    /\ At(flag, 2) # "="

\* for char in flag[1:]: self._parse_single_flag("-" + char, tokens, index)
\* (the counts the calls return are dropped); chars is what is left of flag[1:]
RECURSIVE SplitCombined(_, _, _, _)
SplitCombined(cmd, chars, tokens_, index) ==
    IF chars = <<>> THEN Returned(cmd, 1)
    ELSE LET one == _parse_single_flag(cmd, <<"-", Head(chars)>>, tokens_, index) IN
         IF one.raised THEN Raised(one.command)
         ELSE SplitCombined(one.command, Tail(chars), tokens_, index)

_parse_flag(cmd, flag, tokens_, index) ==
    IF IsCombined(flag) THEN SplitCombined(cmd, SliceFrom(flag, 1), tokens_, index)
    ELSE _parse_single_flag(cmd, flag, tokens_, index)

-----------------------------------------------------------------------------
(* parse and _parse_tokens, one step at a time *)

\* command_string.strip(), then the "kubectl" prefix removed and strip() again
Normalize(s) ==
    LET stripped == strip(s) IN
    IF startswith(stripped, Kubectl) THEN strip(SliceFrom(stripped, 7)) ELSE stripped

\* the body of the verb-scan loop and the flag branch of the classification loop
FlagStep(cmd, tokens_, k) == _parse_flag(cmd, At(tokens_, k), tokens_, k)

\* a verb step that takes whatever token is under the cursor
VerbStep_any(cmd, tokens_, k) ==
    IF k < Len(tokens_)
    THEN [command |-> [cmd EXCEPT !.verb = At(tokens_, k)], i |-> k + 1]
    ELSE [command |-> cmd, i |-> k]

\* if i < len(tokens): potential_verb = tokens[i]; ... : returns [command, i]
VerbStep(cmd, tokens_, k) ==
    IF k < Len(tokens_) /\ At(tokens_, k) \in VERBS
    THEN [command |-> [cmd EXCEPT !.verb = At(tokens_, k)], i |-> k + 1]
    ELSE [command |-> cmd, i |-> k]

\* a non-flag branch that assigns the resource every time
ArgStep_reassign(cmd, token) ==
    IF cmd.verb \in DIRECT_ARG_VERBS
    THEN [cmd EXCEPT !.args = Append(cmd.args, token)]
    ELSE [cmd EXCEPT !.resource = token]

\* the non-flag branch without the direct-argument case
ArgStep_standard(cmd, token) ==
    IF cmd.resource = None
    THEN [cmd EXCEPT !.resource = token]
    ELSE [cmd EXCEPT !.args = Append(cmd.args, token)]

\* the non-flag branch of the classification loop
ArgStep(cmd, token) ==
    IF cmd.verb \in DIRECT_ARG_VERBS
    THEN [cmd EXCEPT !.args = Append(cmd.args, token)]
    ELSE IF cmd.resource = None
         THEN [cmd EXCEPT !.resource = token]
         ELSE [cmd EXCEPT !.args = Append(cmd.args, token)]

\* return {"command": self.command}
ReturnValue(cmd) == [command |-> cmd]

-----------------------------------------------------------------------------
(* parse as a function: KubectlParser().parse(s) on an instance whose       *)
(* command is cmd when the call starts.  RaisedResult stands for a call     *)
(* that raised instead of returning.                                        *)

RaisedResult == [raised |-> TRUE]

RECURSIVE ClassifyLoop(_, _, _)
ClassifyLoop(cmd, tokens_, k) ==
    IF ~(k < Len(tokens_)) THEN ReturnValue(cmd)
    ELSE IF startswith(At(tokens_, k), Dash)
         THEN LET out == FlagStep(cmd, tokens_, k) IN
              IF out.raised THEN RaisedResult
              ELSE ClassifyLoop(out.command, tokens_, k + out.consumed)
         ELSE ClassifyLoop(ArgStep(cmd, At(tokens_, k)), tokens_, k + 1)

RECURSIVE ScanLoop(_, _, _)
ScanLoop(cmd, tokens_, k) ==
    IF k < Len(tokens_) /\ startswith(At(tokens_, k), Dash)
    THEN LET out == FlagStep(cmd, tokens_, k) IN
         IF out.raised THEN RaisedResult
         ELSE ScanLoop(out.command, tokens_, k + out.consumed)
    ELSE LET v == VerbStep(cmd, tokens_, k) IN ClassifyLoop(v.command, tokens_, v.i)

ParseOn(cmd, s) ==
    LET cmd0 == reset(cmd)
        cs == Normalize(s)
    IN IF cs = <<>> THEN ReturnValue(cmd0)
       ELSE IF _tokenize(cs) = <<>> THEN ReturnValue(cmd0)
       ELSE ScanLoop(cmd0, _tokenize(cs), 0)

\* KubectlParser().parse(s): __init__ calls reset()
FreshParse(s) == ParseOn(reset(EmptyCommand), s)

-----------------------------------------------------------------------------
(* The inputs the environment passes to parse *)

\* the most words of an input of the small family
MaxTokens == 2

\* the most parse calls on one instance
MaxCalls == 2

\* every sequence over S of at most n elements
SeqsUpTo(S, n) == UNION {[1..k -> S] : k \in 0..n}

Space == <<" ">>

W_get == <<"g", "e", "t">>
W_logs == <<"l", "o", "g", "s">>
W_pods == <<"p", "o", "d", "s">>
W_x == <<"x">>
W_n == <<"-", "n">>
W_it == <<"-", "i", "t">>

SmallWords == {W_get, W_pods, W_x, W_n, W_it}

SmallInputs == {join(Space, ws) : ws \in SeqsUpTo(SmallWords, MaxTokens)}

\* the wide family: verbs, a word that is no verb, flags of every branch of the
\* flag parser, an open parenthesis, lone dashes and an unterminated quote
MaxWide == 3

W_o == <<"-", "o">>
W_l == <<"-", "l">>
W_open == <<"(", "a">>
W_dash == <<"-">>
W_dashdash == <<"-", "-">>
W_unterminated == <<"'", "a">>

WideWords == {W_get, W_logs, W_pods, W_n, W_o, W_it, W_l, W_open, W_dash, W_dashdash,
              W_unterminated}

\* the degenerate inputs: white space and empty quoted pairs, after an optional
\* "kubectl"
MaxPieces == 3

BlankPieces == {<<" ">>, <<"\t">>, <<DoubleQuote, DoubleQuote>>, <<SingleQuote, SingleQuote>>}

RECURSIVE concat(_)
concat(parts) == IF parts = <<>> THEN <<>> ELSE Head(parts) \o concat(Tail(parts))

DegenerateInputs ==
    {prefix \o concat(ps) : prefix \in {<<>>, Kubectl}, ps \in SeqsUpTo(BlankPieces, MaxPieces)}

WideInputs ==
    {join(Space, ws) : ws \in SeqsUpTo(WideWords, MaxWide)} \cup DegenerateInputs

\* the direct-argument family: an optional flag cluster, then one of the seven
\* direct-argument verbs or "get", then at most MaxRest words
MaxRest == 3

W_exec == <<"e", "x", "e", "c">>
W_attach == <<"a", "t", "t", "a", "c", "h">>
W_port_forward == <<"p", "o", "r", "t", "-", "f", "o", "r", "w", "a", "r", "d">>
W_cp == <<"c", "p">>
W_debug == <<"d", "e", "b", "u", "g">>
W_apply == <<"a", "p", "p", "l", "y">>
W_y == <<"y">>

DirectVerbWords == {W_logs, W_exec, W_attach, W_port_forward, W_cp, W_debug, W_apply}

RestWords == {W_x, W_y, W_o, W_it, W_n}

DirectInputs ==
    {join(Space, pre \o <<verb>> \o rest) :
        pre \in {<<>>, <<W_it>>},
        verb \in DirectVerbWords \cup {W_get},
        rest \in SeqsUpTo(RestWords, MaxRest)}

\* the namespace family: both namespace flags, bare and in the = form
MaxNs == 3

W_a == <<"a">>
W_b == <<"b">>
W_namespace == <<"-", "-", "n", "a", "m", "e", "s", "p", "a", "c", "e">>
W_n_eq_b == <<"-", "n", "=", "b">>
W_namespace_eq_b == <<"-", "-", "n", "a", "m", "e", "s", "p", "a", "c", "e", "=", "b">>

NsWords == {W_get, W_a, W_n, W_namespace, W_n_eq_b, W_namespace_eq_b}

NsInputs == {join(Space, ws) : ws \in SeqsUpTo(NsWords, MaxNs)}

\* the cluster family: a single-dash token of 2 to MaxCluster characters whose
\* second character is not "=", after an optional verb and before an optional
\* word or flag
MaxCluster == 3

ClusterChars == {"i", "t", "n", "="}

Clusters ==
    {Dash \o cs : cs \in {c \in SeqsUpTo(ClusterChars, MaxCluster) :
                                Len(c) >= 2 /\ c[2] # "="}}

ClusterInputs ==
    {join(Space, pre \o <<cl>> \o post) :
        pre \in {<<>>, <<W_get>>},
        cl \in Clusters,
        post \in {<<>>, <<W_x>>, <<W_n>>}}

\* the value-flag family: one of the 26 flag names the documentation lists as
\* value-taking, after up to MaxPre words and before an optional value and up
\* to MaxPost words
MaxPre == 2

MaxPost == 2

W_v == <<"v">>
W_l_eq_open == <<"-", "l", "=", "(", "a">>

ValueFlagNames == {
    <<"-", "o">>,
    <<"-", "-", "o", "u", "t", "p", "u", "t">>,
    <<"-", "w">>,
    <<"-", "-", "w", "a", "t", "c", "h">>,
    <<"-", "-", "s", "o", "r", "t", "-", "b", "y">>,
    <<"-", "-", "f", "i", "e", "l", "d", "-", "s", "e", "l", "e", "c", "t", "o", "r">>,
    <<"-", "-", "k", "u", "b", "e", "c", "o", "n", "f", "i", "g">>,
    <<"-", "-", "c", "o", "n", "t", "e", "x", "t">>,
    <<"-", "-", "c", "l", "u", "s", "t", "e", "r">>,
    <<"-", "-", "u", "s", "e", "r">>,
    <<"-", "-", "c", "e", "r", "t", "i", "f", "i", "c", "a", "t", "e", "-", "a", "u", "t", "h", "o", "r", "i", "t", "y">>,
    <<"-", "-", "c", "l", "i", "e", "n", "t", "-", "c", "e", "r", "t", "i", "f", "i", "c", "a", "t", "e">>,
    <<"-", "-", "c", "l", "i", "e", "n", "t", "-", "k", "e", "y">>,
    <<"-", "-", "t", "o", "k", "e", "n">>,
    <<"-", "-", "a", "s">>,
    <<"-", "-", "a", "s", "-", "g", "r", "o", "u", "p">>,
    <<"-", "-", "c", "a", "c", "h", "e", "-", "d", "i", "r">>,
    <<"-", "-", "m", "a", "t", "c", "h", "-", "s", "e", "r", "v", "e", "r", "-", "v", "e", "r", "s", "i", "o", "n">>,
    <<"-", "-", "r", "e", "q", "u", "e", "s", "t", "-", "t", "i", "m", "e", "o", "u", "t">>,
    <<"-", "-", "s", "e", "r", "v", "e", "r">>,
    <<"-", "s">>,
    <<"-", "c">>,
    <<"-", "p">>,
    <<"-", "f">>,
    <<"-", "k">>,
    <<"-", "-", "p", "a", "t", "c", "h">>
}

ValPreWords == {W_get, W_l_eq_open, W_it}

ValPostWords == {W_x, W_it}

ValInputs ==
    {join(Space, pre \o <<flag>> \o fol \o post) :
        pre \in SeqsUpTo(ValPreWords, MaxPre),
        flag \in ValueFlagNames,
        fol \in {<<>>, <<W_v>>},
        post \in SeqsUpTo(ValPostWords, MaxPost)}

\* the selector family: a selector flag, a key, in or notin, and a list of up to
\* MaxValues values written as one token, split after the commas, or with every
\* parenthesis and comma a token of its own
MaxValues == 2

W_app == <<"a", "p", "p">>
W_in == <<"i", "n">>
W_notin == <<"n", "o", "t", "i", "n">>
W_selector == <<"-", "-", "s", "e", "l", "e", "c", "t", "o", "r">>
W_t_eq_w == <<"t", "=", "w">>

ValueChars == <<"a", "b", "c">>

ListValues(n) == [k \in 1..n |-> <<ValueChars[k]>>]

CompactList(n) == << <<"(">> \o join(<<",">>, ListValues(n)) \o <<")">> >>

SplitList(n) ==
    [k \in 1..n |-> (IF k = 1 THEN <<"(">> ELSE <<>>) \o <<ValueChars[k]>>
                       \o (IF k = n THEN <<")">> ELSE <<",">>)]

SpacedList(n) ==
    [k \in 1..(2 * n + 1) |->
        IF k = 1 THEN <<"(">>
        ELSE IF k = 2 * n + 1 THEN <<")">>
        ELSE IF k % 2 = 0 THEN <<ValueChars[k \div 2]>>
        ELSE <<",">>]

ValueLists == UNION {{CompactList(n), SplitList(n), SpacedList(n)} : n \in 1..MaxValues}

SelInputs ==
    {join(Space, pre \o <<flag, W_app, op>> \o list \o post) :
        pre \in {<<>>, <<W_get>>, <<W_get, W_pods>>},
        flag \in {W_l, W_selector},
        op \in {W_in, W_notin},
        list \in ValueLists,
        post \in {<<>>, <<W_x>>, <<W_it>>, <<W_t_eq_w>>}}

\* the quote family: a content of up to MaxContent characters, none of them a
\* quote, wrapped in single or in double quotes
MaxContent == 2

ContentChars == {"a", " ", "="}

Wrappers == {SingleQuote, DoubleQuote}

QuotePre == {<<"g", "e", "t", " ">>, <<"g", "e", "t", " ", "-", "-", "f", "l", "a", "g", "=">>, <<"-", "x", " ", "g", "e", "t", " ">>}

QuotePost == {<<>>, <<" ", "y">>, <<"z">>}

QuoteInputs ==
    {pre \o <<q>> \o content \o <<q>> \o post :
        pre \in QuotePre,
        q \in Wrappers,
        content \in SeqsUpTo(ContentChars, MaxContent),
        post \in QuotePost}

\* the client-name family: kubectl, after optional whitespace, followed by a
\* space, by nothing or by a dash, and then up to MaxAfterName words
MaxAfterName == 2

AfterNameWords == {W_get, W_pods, W_n, W_x}

PrefixInputs ==
    {lead \o Kubectl \o glue \o join(Space, ws) :
        lead \in {<<>>, Space},
        glue \in {Space, <<>>, Dash},
        ws \in SeqsUpTo(AfterNameWords, MaxAfterName)}

\* the leading-flag family: up to MaxLead words, among them flags of every
\* kind that may stand before the verb
MaxLead == 3

W_username == <<"-", "-", "u", "s", "e", "r", "n", "a", "m", "e">>

LeadWords == {W_username, W_n, W_o, W_it, W_get, W_x}

LeadInputs == {join(Space, ws) : ws \in SeqsUpTo(LeadWords, MaxLead)}

\* the boundary family: selector flags, bare and in the = form, with words,
\* flags and parentheses after them
MaxBoundary == 3

W_l_eq_a == <<"-", "l", "=", "a">>
W_minus_x == <<"-", "x">>
W_close == <<"b", ")">>

BoundaryWords == {W_l, W_selector, W_l_eq_a, W_l_eq_open, W_open, W_close, W_x, W_minus_x}

BoundaryInputs == {join(Space, ws) : ws \in SeqsUpTo(BoundaryWords, MaxBoundary)}

\* the open-group family: selector flags, bare and in the = form, with
\* parentheses that open and close, and namespace flags, a flag of the value
\* table and a cluster around them
MaxOpen == 3

OpenWords ==
    {W_l, W_selector, W_l_eq_open, W_l_eq_a, W_open, W_close, W_x, W_n, W_namespace_eq_b,
     W_o, W_it}

OpenInputs == {join(Space, ws) : ws \in SeqsUpTo(OpenWords, MaxOpen)}

\* the alias family: a caller that keeps the structures it is handed over
\* several calls
MaxAlias == 2

MaxHeld == 2

AliasWords == {W_get, W_n}

AliasInputs == {join(Space, ws) : ws \in SeqsUpTo(AliasWords, MaxAlias)}

InputsOf(f) ==
    CASE f = "small" -> SmallInputs
      [] f = "wide" -> WideInputs
      [] f = "direct" -> DirectInputs
      [] f = "ns" -> NsInputs
      [] f = "cluster" -> ClusterInputs
      [] f = "val" -> ValInputs
      [] f = "sel" -> SelInputs
      [] f = "quote" -> QuoteInputs
      [] f = "prefix" -> PrefixInputs
      [] f = "lead" -> LeadInputs
      [] f = "boundary" -> BoundaryInputs
      [] f = "open" -> OpenInputs
      [] f = "alias" -> AliasInputs

-----------------------------------------------------------------------------
(* The plugin: payload arguments, contexts and the parser of an invocation. *)
(* A dict is a record over the keys the plugin and its callers use; a key   *)
(* that is absent holds Missing.  An argument value is [str |-> chars],     *)
(* [int |-> n] or [none |-> TRUE], so that str(arg) has something to do.    *)

Missing == [missing |-> TRUE]

Digits == <<"0", "1", "2", "3", "4", "5", "6", "7", "8", "9">>

RECURSIVE Decimal(_)
Decimal(n) ==
    IF n < 10 THEN <<Digits[n + 1]>>
    ELSE Decimal(n \div 10) \o <<Digits[(n % 10) + 1]>>

\* str(arg) without the conversion: only right for an argument that is a str
str_unconverted(arg) == IF "str" \in DOMAIN arg THEN arg.str ELSE <<>>

\* str(arg)
str(arg) ==
    IF "str" \in DOMAIN arg THEN arg.str
    ELSE IF "int" \in DOMAIN arg
         THEN IF arg.int < 0 THEN <<"-">> \o Decimal(0 - arg.int) ELSE Decimal(arg.int)
         ELSE <<"N", "o", "n", "e">>

\* payload.args: None, or a dict from argument names to values (in insertion
\* order)
NoneArgs == [given |-> FALSE, items |-> <<>>]

Dict(items) == [given |-> TRUE, items |-> items]

\* not payload.args
Falsy(args) == ~args.given \/ args.items = <<>>

\* a guard that lets every dict through
TooMany_never(args) == FALSE

\* len(args) > 1
TooMany(args) == Len(args.items) > 1

\* ToolPreInvokeResult(continue_processing=True), and the call still running
Continue == [continue_processing |-> TRUE]

ValueError == [raised |-> "ValueError"]

Running == [running |-> TRUE]

\* the invocations that may be in flight together, and the contexts they use
Invocations == {"A", "B"}

Contexts == {"c1", "c2"}

\* every invocation on the one parser of invocation A
ParserOf_shared(k) == "A"

\* parser = KubectlParser(): a parser of the invocation's own
ParserOf(k) == k

\* no parser constructed (yet) by the invocation
NoParser == [constructed |-> FALSE]

\* KubectlParser()
NewParser ==
    [constructed |-> TRUE, command |-> reset(EmptyCommand), pc |-> "idle",
     tokens |-> <<>>, i |-> 0, result |-> NoResult]

\* parser.parse(s) up to the call of _parse_tokens or an early return
ParserCall(q, s) ==
    LET cmd0 == reset(q.command)
        cs == Normalize(s)
        toks == IF cs = <<>> THEN <<>> ELSE _tokenize(cs)
    IN IF toks = <<>>
       THEN [q EXCEPT !.command = cmd0, !.pc = "idle", !.tokens = <<>>, !.i = 0,
                      !.result = ReturnValue(cmd0)]
       ELSE [q EXCEPT !.command = cmd0, !.pc = "scan", !.tokens = toks, !.i = 0,
                      !.result = NoResult]

\* one iteration of a loop of _parse_tokens, the step between the loops, or
\* the return of parse
ParserAdvance(q) ==
    LET flag == q.i < Len(q.tokens) /\ startswith(At(q.tokens, q.i), Dash)
        out == FlagStep(q.command, q.tokens, q.i)
        v == VerbStep(q.command, q.tokens, q.i)
    IN IF flag
       THEN IF out.raised THEN [q EXCEPT !.command = out.command, !.pc = "raised"]
            ELSE [q EXCEPT !.command = out.command, !.i = q.i + out.consumed]
       ELSE IF q.pc = "scan"
            THEN [q EXCEPT !.command = v.command, !.i = v.i, !.pc = "classify"]
            ELSE IF q.i < Len(q.tokens)
                 THEN [q EXCEPT !.command = ArgStep(q.command, At(q.tokens, q.i)),
                                !.i = q.i + 1]
                 ELSE [q EXCEPT !.result = ReturnValue(q.command), !.pc = "idle"]

\* a store that keeps what the key already holds
StoreIn_keep(dict, value) ==
    IF dict.opa_policy_context = Missing
    THEN [dict EXCEPT !.opa_policy_context = [kubectlcmd |-> value]]
    ELSE dict

\* state[CONTEXT_KEY_POLICY_CONTEXT] = {CONTEXT_KEY_KUBECTL_CMD: value}
StoreIn(dict, value) == [dict EXCEPT !.opa_policy_context = [kubectlcmd |-> value]]

\* an invocation slot before its first call
IdleInvocation ==
    [pc |-> "idle", args |-> NoneArgs, context |-> "c1", arg |-> 0,
     returned |-> Running, n |-> 0]

\* the payloads: no args, an empty dict, one argument (a command, another
\* command, an int, None), two arguments
W_kubectl_get_n_x == <<"k", "u", "b", "e", "c", "t", "l", " ", "g", "e", "t", " ", "-", "n", " ", "x">>
W_logs_p == <<"l", "o", "g", "s", " ", "p">>

ArgValues == {[str |-> W_kubectl_get_n_x], [str |-> W_logs_p], [int |-> 42], [none |-> TRUE]}

Payloads ==
    {NoneArgs, Dict(<<>>)}
    \cup {Dict(<<[name |-> "command", value |-> v]>>) : v \in ArgValues}
    \cup {Dict(<<[name |-> "command", value |-> [str |-> W_get]],
                 [name |-> "extra", value |-> [str |-> W_logs_p]]>>)}

\* the most invocations one after the other
MaxInvocations == 3

\* the state of a context before the plugin runs: empty, or with a key of
\* another component
InitialState(c) ==
    [opa_policy_context |-> Missing,
     user |-> IF c = "c1" THEN Missing ELSE [name |-> <<"u">>]]

-----------------------------------------------------------------------------
(* The state machine *)

\* a freshly constructed instance, in an environment that makes n parse calls
\* with arguments of family f
InitFor(f, n) ==
    /\ command = EmptyCommand
    /\ pc = "idle"
    /\ command_string = <<>>
    /\ tokens = <<>>
    /\ i = 0
    /\ result = NoResult
    /\ calls = 0
    /\ stale = None
    /\ budget = n
    /\ family = f
    /\ invocations = [k \in Invocations |-> IdleInvocation]
    /\ parsers = [k \in Invocations |-> NoParser]
    /\ state = [c \in Contexts |-> InitialState(c)]
    /\ held = <<>>

\* the caller keeps what parse returns
Keeps == family = "alias"

Keep(structures, cmd) == IF Keeps THEN Append(structures, Handed(cmd)) ELSE structures

Init == InitFor("small", MaxCalls)

\* parse, up to the call of _parse_tokens (or to one of the two early returns)
Start(s) ==
    /\ pc = "idle"
    /\ calls < budget
    /\ calls' = calls + 1
    /\ stale' = command.namespace
    /\ command_string' = s
    /\ command' = reset(command)
    /\ LET cs == Normalize(s)
           toks == IF cs = <<>> THEN <<>> ELSE _tokenize(cs)
       IN IF toks = <<>>
          THEN /\ pc' = "idle"
               /\ result' = ReturnValue(command')
               /\ tokens' = <<>>
               /\ i' = 0
               /\ held' = Keep(Written(Rebind(held), command'), command')
          ELSE /\ pc' = "scan"
               /\ result' = NoResult
               /\ tokens' = toks
               /\ i' = 0
               /\ held' = Written(Rebind(held), command')
    /\ UNCHANGED <<budget, family, invocations, parsers, state>>

\* a flag token under the cursor, in either loop of _parse_tokens
FlagToken ==
    /\ i < Len(tokens)
    /\ startswith(At(tokens, i), Dash)

TakeFlag ==
    LET out == FlagStep(command, tokens, i) IN
    /\ command' = out.command
    /\ IF out.raised
       THEN pc' = "raised" /\ i' = i
       ELSE pc' = pc /\ i' = i + out.consumed
    /\ held' = Written(held, command')
    /\ UNCHANGED <<command_string, tokens, result, calls, stale, budget, family, invocations, parsers, state>>

\* one iteration of the verb-scan loop
ScanFlag ==
    /\ pc = "scan"
    /\ FlagToken
    /\ TakeFlag

\* the verb-scan loop ends; the token under the cursor is the verb if VERBS holds it
FindVerb ==
    /\ pc = "scan"
    /\ ~FlagToken
    /\ LET v == VerbStep(command, tokens, i) IN
       /\ command' = v.command
       /\ i' = v.i
    /\ pc' = "classify"
    /\ held' = Written(held, command')
    /\ UNCHANGED <<command_string, tokens, result, calls, stale, budget, family, invocations, parsers, state>>

\* one iteration of the classification loop, on a flag
ClassifyFlag ==
    /\ pc = "classify"
    /\ FlagToken
    /\ TakeFlag

\* one iteration of the classification loop, on a token that is no flag
ClassifyArg ==
    /\ pc = "classify"
    /\ i < Len(tokens)
    /\ ~startswith(At(tokens, i), Dash)
    /\ command' = ArgStep(command, At(tokens, i))
    /\ i' = i + 1
    /\ held' = Written(held, command')
    /\ UNCHANGED <<pc, command_string, tokens, result, calls, stale, budget, family, invocations, parsers, state>>

\* the classification loop ends and parse returns
Return ==
    /\ pc = "classify"
    /\ ~(i < Len(tokens))
    /\ result' = ReturnValue(command)
    /\ held' = Keep(held, command)
    /\ pc' = "idle"
    /\ UNCHANGED <<command, command_string, tokens, i, calls, stale, budget, family, invocations, parsers, state>>

\* a caller's reset() between two parse calls
Reset ==
    /\ pc = "idle"
    /\ command' = reset(command)
    /\ held' = Written(Rebind(held), command')
    /\ UNCHANGED <<pc, command_string, tokens, i, result, calls, stale, budget, family, invocations, parsers, state>>

\* the environment calls parse with an argument of its family
Parse ==
    /\ pc = "idle"
    /\ calls < budget
    /\ \E s \in InputsOf(family) : Start(s)

Next ==
    \/ Parse
    \/ ScanFlag
    \/ FindVerb
    \/ ClassifyFlag
    \/ ClassifyArg
    \/ Return
    \/ Reset

Spec == Init /\ [][Next]_vars

\* one parse call on a fresh instance, for each family of arguments
SpecWide == InitFor("wide", 1) /\ [][Next]_vars

SpecDirect == InitFor("direct", 1) /\ [][Next]_vars

SpecNs == InitFor("ns", 1) /\ [][Next]_vars

SpecCluster == InitFor("cluster", 1) /\ [][Next]_vars

SpecVal == InitFor("val", 1) /\ [][Next]_vars

SpecSel == InitFor("sel", 1) /\ [][Next]_vars

SpecQuote == InitFor("quote", 1) /\ [][Next]_vars

SpecPrefix == InitFor("prefix", 1) /\ [][Next]_vars

SpecLead == InitFor("lead", 1) /\ [][Next]_vars

SpecBoundary == InitFor("boundary", 1) /\ [][Next]_vars

SpecOpen == InitFor("open", 1) /\ [][Next]_vars

\* up to MaxHeld calls on one instance, by a caller that keeps the results
SpecAlias == InitFor("alias", MaxHeld) /\ [][Next]_vars

\* parse runs to its return once called: nothing suspends a call
ParseStep == ScanFlag \/ FindVerb \/ ClassifyFlag \/ ClassifyArg \/ Return

SpecWideFair == SpecWide /\ WF_vars(ParseStep)

-----------------------------------------------------------------------------
(* The plugin: tool_pre_invoke and process_args_in_state, one statement a   *)
(* step, for each invocation in flight.                                     *)

parserVars ==
    <<command, pc, command_string, tokens, i, result, calls, stale, budget, family, held>>

\* the invocations the environment makes: one after the other in slot A, or
\* one in each slot, in flight together
ActiveInvocations == IF family = "concurrent" THEN Invocations ELSE {"A"}

Goto(k, where) == [invocations EXCEPT ![k].pc = where]

Finish(k, where, value) == [invocations EXCEPT ![k].pc = where, ![k].returned = value]

\* the gateway calls tool_pre_invoke(payload, context)
Invoke(k) ==
    /\ k \in ActiveInvocations
    /\ invocations[k].pc \in {"idle", "done", "raised"}
    /\ invocations[k].n < budget
    /\ \E a \in Payloads, c \in Contexts :
          invocations' = [invocations EXCEPT ![k] =
              [pc |-> "called", args |-> a, context |-> c, arg |-> 0,
               returned |-> Running, n |-> invocations[k].n + 1]]
    /\ UNCHANGED <<parsers, state, parserVars>>

\* if not payload.args: return ToolPreInvokeResult(continue_processing=True)
CheckArgs(k) ==
    /\ invocations[k].pc = "called"
    /\ invocations' = IF Falsy(invocations[k].args)
                      THEN Finish(k, "done", Continue)
                      ELSE Goto(k, "process")
    /\ UNCHANGED <<parsers, state, parserVars>>

\* if len(args) > 1: raise ValueError
CheckSingle(k) ==
    /\ invocations[k].pc = "process"
    /\ invocations' = IF TooMany(invocations[k].args)
                      THEN Finish(k, "raised", ValueError)
                      ELSE Goto(k, "loop")
    /\ UNCHANGED <<parsers, state, parserVars>>

\* for arg in args.values(): parser = KubectlParser(); after the last value
\* tool_pre_invoke returns
NextArg(k) ==
    /\ invocations[k].pc = "loop"
    /\ IF invocations[k].arg < Len(invocations[k].args.items)
       THEN /\ parsers' = [parsers EXCEPT ![ParserOf(k)] = NewParser]
            /\ invocations' = Goto(k, "call")
       ELSE /\ parsers' = parsers
            /\ invocations' = Finish(k, "done", Continue)
    /\ UNCHANGED <<state, parserVars>>

\* parser.parse(str(arg)) is called
CallParse(k) ==
    /\ invocations[k].pc = "call"
    /\ LET value == invocations[k].args.items[invocations[k].arg + 1].value IN
       parsers' = [parsers EXCEPT ![ParserOf(k)] = ParserCall(@, str(value))]
    /\ invocations' = Goto(k, "run")
    /\ UNCHANGED <<state, parserVars>>

\* the parse call of the invocation takes a step
RunParser(k) ==
    /\ invocations[k].pc = "run"
    /\ parsers[ParserOf(k)].pc \in {"scan", "classify"}
    /\ parsers' = [parsers EXCEPT ![ParserOf(k)] = ParserAdvance(@)]
    /\ UNCHANGED <<invocations, state, parserVars>>

\* parse has returned: state[...] = {...: <what it returned>}; an exception
\* of parse leaves the plugin
Store(k) ==
    /\ invocations[k].pc = "run"
    /\ parsers[ParserOf(k)].pc \notin {"scan", "classify"}
    /\ IF parsers[ParserOf(k)].pc = "raised"
       THEN /\ invocations' = Finish(k, "raised", RaisedResult)
            /\ state' = state
       ELSE /\ invocations' = [invocations EXCEPT ![k].pc = "loop", ![k].arg = @ + 1]
            /\ state' = [state EXCEPT ![invocations[k].context] =
                             StoreIn(@, parsers[ParserOf(k)].result)]
    /\ UNCHANGED <<parsers, parserVars>>

PluginNext ==
    \E k \in Invocations :
        \/ Invoke(k)
        \/ CheckArgs(k)
        \/ CheckSingle(k)
        \/ NextArg(k)
        \/ CallParse(k)
        \/ RunParser(k)
        \/ Store(k)

\* up to MaxInvocations invocations, one after the other
SpecPlugin == InitFor("plugin", MaxInvocations) /\ [][PluginNext]_vars

\* two invocations in flight together
SpecConcurrent == InitFor("concurrent", 1) /\ [][PluginNext]_vars

-----------------------------------------------------------------------------
(* C1 *)

\* C1: no cross-call leakage.  Whatever calls the instance served before,
\* what parse returns for its argument is what a freshly constructed
\* instance returns for it.
C1_NoCrossCallLeak ==
    (pc = "idle" /\ result # NoResult) => result = FreshParse(command_string)

\* A second or later call returned with no namespace on an instance that
\* held a namespace when the call started.
C1_Witness ==
    /\ pc = "idle"
    /\ calls >= 2
    /\ result # NoResult
    /\ stale # None
    /\ result.command.namespace = None
    /\ result.command.flags = <<>>

-----------------------------------------------------------------------------
(* C2 *)

\* C2: with a direct-argument verb recognised, resource stays None, and each
\* iteration of the classification loop appends the token under the cursor to
\* args when it is no flag, and leaves args alone when it is one: the tokens
\* the cursor reaches are those no flag took as its value, so args lists them
\* in input order.
C2_DirectVerbs ==
    /\ [](command.verb \in DIRECT_ARG_VERBS => command.resource = None)
    /\ []((result # NoResult /\ result.command.verb \in DIRECT_ARG_VERBS)
            => result.command.resource = None)
    /\ [][(pc = "classify" /\ command.verb \in DIRECT_ARG_VERBS)
            => /\ command'.verb = command.verb
               /\ IF i < Len(tokens) /\ ~startswith(At(tokens, i), Dash)
                  THEN command'.args = Append(command.args, At(tokens, i))
                  ELSE command'.args = command.args]_vars
    /\ [][pc = "scan" => command'.args = <<>>]_vars

\* A direct-argument verb returned with one argument and a flag that took the
\* token after it as its value.
C2_Witness ==
    /\ pc = "idle"
    /\ result # NoResult
    /\ result.command.verb \in DIRECT_ARG_VERBS
    /\ result.command.resource = None
    /\ result.command.args = <<W_x>>
    /\ \E k \in 1..Len(result.command.flags) : result.command.flags[k].value = W_y

-----------------------------------------------------------------------------
(* C3 *)

\* the value of the last entry of flags named -n or --namespace that has a
\* value, None when there is none
LastNamespace(flags) ==
    LET valued == {k \in 1..Len(flags) :
                     flags[k].name \in {W_n, W_namespace} /\ flags[k].value # None}
    IN IF valued = {} THEN None
       ELSE flags[CHOOSE k \in valued : \A j \in valued : j <= k].value

\* C3: after parse, namespace is the value of the last entry of flags named
\* -n or --namespace whose value is not None, and None when flags has no such
\* entry.
C3_NamespaceIsLastFlag ==
    (pc = "idle" /\ result # NoResult)
        => result.command.namespace = LastNamespace(result.command.flags)

-----------------------------------------------------------------------------
(* C4 *)

\* position k of toks (from 1) holds a listed flag name and the next token
\* does not start with "-"
ValueFlagAt(toks, k) ==
    /\ k >= 1
    /\ k < Len(toks)
    /\ toks[k] \in ValueFlagNames
    /\ ~startswith(toks[k + 1], Dash)

Returned_(r) == pc = "idle" /\ r # NoResult

OccursOnce(toks, token) == Cardinality({k \in 1..Len(toks) : toks[k] = token}) = 1

\* the flag at position k is in flags with the token after it as its value, and
\* that token (told apart from the others by occurring once) is not the
\* resource and not in args
RecordedWithValue(cmd, toks, k) ==
    /\ \E m \in 1..Len(cmd.flags) : cmd.flags[m] = Flag(toks[k], toks[k + 1])
    /\ OccursOnce(toks, toks[k + 1])
        => /\ cmd.resource # toks[k + 1]
           /\ \A a \in 1..Len(cmd.args) : cmd.args[a] # toks[k + 1]

\* C4 as stated: every listed flag followed by a token not starting with "-"
\* is recorded with that token as its value, and the token is neither resource
\* nor an element of args.
C4_AsStated ==
    Returned_(result)
        => \A k \in 1..Len(tokens) :
              ValueFlagAt(tokens, k) => RecordedWithValue(result.command, tokens, k)

RECURSIVE BalanceFrom(_, _, _)
BalanceFrom(toks, j, k) ==
    IF j >= k THEN 0 ELSE ParenBalance(toks[j]) + BalanceFrom(toks, j + 1, k)

IsSelectorToken(token) ==
    \/ token \in SelectorFlags
    \/ contains(token, "=") /\ split_name(token) \in SelectorFlags

\* position k lies after a selector flag whose expression has, up to k,
\* parentheses that do not balance
InOpenSelector(toks, k) ==
    \E j \in 1..(k - 1) : IsSelectorToken(toks[j]) /\ BalanceFrom(toks, j, k) # 0

\* C4, amended: a listed flag followed by a token not starting with "-" is
\* recorded with that token as its value, and the token is neither resource nor
\* an element of args, unless the flag lies inside the expression of an earlier
\* selector flag whose parentheses do not balance; and whenever the cursor is on
\* such a flag, the step appends the entry, skips the value and leaves resource
\* and args alone.
C4_ValueFlagTable ==
    /\ [](Returned_(result)
            => \A k \in 1..Len(tokens) :
                  (ValueFlagAt(tokens, k) /\ ~InOpenSelector(tokens, k))
                      => RecordedWithValue(result.command, tokens, k))
    /\ [][(pc \in {"scan", "classify"} /\ ValueFlagAt(tokens, i + 1))
            => /\ command'.flags =
                     Append(command.flags, Flag(tokens[i + 1], tokens[i + 2]))
               /\ i' = i + 2
               /\ command'.resource = command.resource
               /\ command'.args = command.args]_vars

\* a parse has returned a listed flag with its value, with a resource before it
\* and an argument after it
C4_Witness ==
    /\ Returned_(result)
    /\ \E k \in 1..Len(tokens) :
          /\ ValueFlagAt(tokens, k)
          /\ ~InOpenSelector(tokens, k)
          /\ tokens[k + 1] = W_v
          /\ \E m \in 1..Len(result.command.flags) :
                result.command.flags[m] = Flag(tokens[k], W_v)
    /\ result.command.verb = W_get
    /\ result.command.resource = W_x

-----------------------------------------------------------------------------
(* C5 *)

\* a combined short-flag token as the claim describes it: one dash, at least
\* two characters after it, the second of them not "="
IsCluster(token) ==
    /\ Len(token) >= 3
    /\ token[1] = "-"
    /\ token[2] # "-"
    /\ token[3] # "="

\* C5: an iteration on a combined token -c1...ck appends exactly k entries to
\* flags, named -c1, ..., -ck in that order, and moves the cursor by 1.
C5_ClusterExpansion ==
    [][(pc \in {"scan", "classify"} /\ i < Len(tokens) /\ IsCluster(At(tokens, i)))
        => LET cluster == At(tokens, i)
               k == Len(cluster) - 1
               before == Len(command.flags)
           IN /\ i' = i + 1
              /\ Len(command'.flags) = before + k
              /\ SubSeq(command'.flags, 1, before) = command.flags
              /\ \A j \in 1..k :
                    command'.flags[before + j].name = <<"-", cluster[j + 1]>>]_vars

-----------------------------------------------------------------------------
(* C6 *)

\* position p of toks holds a selector flag followed by a key, in or notin, and
\* a parenthesised list
ExpressionAt(toks, p) ==
    /\ toks[p] \in SelectorFlags
    /\ p + 3 <= Len(toks)
    /\ ~startswith(toks[p + 1], Dash)
    /\ toks[p + 2] \in {W_in, W_notin}
    /\ startswith(toks[p + 3], <<"(">>)
    /\ \E e \in (p + 3)..Len(toks) : contains(toks[e], ")")

\* the position of the token that closes the list
ExpressionEnd(toks, p) ==
    CHOOSE e \in (p + 3)..Len(toks) :
        /\ contains(toks[e], ")")
        /\ \A d \in (p + 3)..(e - 1) : ~contains(toks[d], ")")

\* C6: a selector flag followed by the tokens of KEY in (V1,...,Vn) or
\* KEY notin (V1,...,Vn) is recorded as exactly one entry whose value is those
\* tokens joined by single spaces, and none of those tokens is the resource or
\* an element of args.
C6_SelectorReassembly ==
    Returned_(result)
        => \A p \in 1..Len(tokens) :
              ExpressionAt(tokens, p)
                  => LET cmd == result.command
                         expr == SubSeq(tokens, p + 1, ExpressionEnd(tokens, p))
                         entries == {m \in 1..Len(cmd.flags) :
                                        cmd.flags[m].name = tokens[p]}
                     IN /\ Cardinality(entries) = 1
                        /\ \A m \in entries : cmd.flags[m].value = join(Space, expr)
                        /\ \A k \in 1..Len(expr) :
                              /\ cmd.resource # expr[k]
                              /\ \A a \in 1..Len(cmd.args) : cmd.args[a] # expr[k]

-----------------------------------------------------------------------------
(* C7 *)

\* s is white space and empty quoted pairs only
RECURSIVE OnlyBlank(_)
OnlyBlank(s) ==
    \/ s = <<>>
    \/ isspace(Head(s)) /\ OnlyBlank(Tail(s))
    \/ /\ Len(s) >= 2
       /\ Head(s) \in QuoteChars
       /\ s[2] = Head(s)
       /\ OnlyBlank(Tail(Tail(s)))

\* s is degenerate: blank, after an optional leading "kubectl"
IsDegenerate(s) ==
    \/ OnlyBlank(s)
    \/ startswith(lstrip(s), Kubectl) /\ OnlyBlank(SliceFrom(lstrip(s), 7))

\* C7: a degenerate input yields verb, resource and namespace None and empty
\* args and flags.
C7_Degenerate ==
    (pc = "idle" /\ calls > 0 /\ IsDegenerate(command_string))
        => result = [command |-> [verb |-> None, resource |-> None, namespace |-> None,
                                  args |-> <<>>, flags |-> <<>>]]

\* The call returned for "kubectl", a blank and an empty quoted pair.
C7_Witness ==
    /\ pc = "idle"
    /\ result # NoResult
    /\ command_string = Kubectl \o <<" ", DoubleQuote, DoubleQuote>>

-----------------------------------------------------------------------------
(* C8 *)

IsQuote(char) == char \in Wrappers

\* the same input with the other kind of quote
SwapQuotes(s) ==
    [k \in 1..Len(s) |->
        IF s[k] = SingleQuote THEN DoubleQuote
        ELSE IF s[k] = DoubleQuote THEN SingleQuote
        ELSE s[k]]

\* what lies between the first and the last quote of s
Content(s) ==
    LET at == {k \in 1..Len(s) : IsQuote(s[k])}
        first == CHOOSE k \in at : \A j \in at : k <= j
        last == CHOOSE k \in at : \A j \in at : j <= k
    IN SubSeq(s, first + 1, last - 1)

Infix(part, whole) ==
    \E k \in 0..(Len(whole) - Len(part)) : SubSeq(whole, k + 1, k + Len(part)) = part

W_flag_eq == <<"g", "e", "t", " ", "-", "-", "f", "l", "a", "g", "=">>

W_flag == <<"-", "-", "f", "l", "a", "g">>

\* C8: an input in which a content without quotes is wrapped in single quotes
\* tokenizes to the same tokens as the input with the content in double quotes;
\* no token keeps a quote, the content with its whitespace lies inside one
\* token, and --flag="S" and --flag='S' both give the flag the value S.
C8_QuoteEquivalence ==
    (pc # "idle" \/ result # NoResult)
        => LET content == Content(command_string) IN
           /\ tokens = _tokenize(Normalize(SwapQuotes(command_string)))
           /\ \A t \in 1..Len(tokens) : \A k \in 1..Len(tokens[t]) : ~IsQuote(tokens[t][k])
           /\ content # <<>> => \E t \in 1..Len(tokens) : Infix(content, tokens[t])
           /\ (/\ Returned_(result)
               /\ startswith(command_string, W_flag_eq)
               /\ IsQuote(Last(command_string)))
                 => result.command.flags = <<Flag(W_flag, content)>>

\* a parse of get --flag='a ' has returned the content, with
\* its space, as the value of the flag
C8_Witness ==
    /\ Returned_(result)
    /\ startswith(command_string, W_flag_eq \o <<SingleQuote>>)
    /\ Content(command_string) = <<"a", " ">>
    /\ result.command.flags = <<Flag(W_flag, <<"a", " ">>)>>

-----------------------------------------------------------------------------
(* C9 *)

CommandFields == {"verb", "resource", "namespace", "args", "flags"}

\* C9: no call raises, and what a call returns holds the command with its
\* five fields.
C9_NeverFails ==
    /\ pc # "raised"
    /\ (pc = "idle" /\ calls > 0)
        => /\ result # NoResult
           /\ result # RaisedResult
           /\ DOMAIN result = {"command"}
           /\ DOMAIN result.command = CommandFields
           /\ FreshParse(command_string) # RaisedResult

\* The call returned for an input with a lone "--", an unbalanced parenthesis
\* and an unterminated quote, and no verb.
C9_Witness ==
    /\ pc = "idle"
    /\ result # NoResult
    /\ command_string = join(Space, <<W_dashdash, W_open, W_unterminated>>)
    /\ result.command.verb = None
    /\ result.command.flags = <<Flag(DashDash, None)>>

-----------------------------------------------------------------------------
(* C10 *)

\* C10: every iteration of the verb scan and of the classification loop moves
\* the cursor forward, the cursor never passes the end of the tokens, and a
\* call that started returns.
C10_Terminates ==
    /\ [][(pc \in {"scan", "classify"} /\ pc' = pc) => i' > i]_vars
    /\ [](i <= Len(tokens))
    /\ [](pc # "idle" => <>(pc = "idle" /\ result # NoResult))

\* A call returned after a selector flag took two tokens in one iteration.
C10_Witness ==
    /\ pc = "idle"
    /\ result # NoResult
    /\ Len(tokens) = 3
    /\ Len(result.command.flags) = 1
    /\ result.command.flags[1].name = W_l
    /\ result.command.flags[1].value = join(Space, <<W_open, W_pods>>)

-----------------------------------------------------------------------------
(* C11 *)

Single(args) == args.given /\ Len(args.items) = 1

\* invocation k takes a step
Steps(k) == invocations'[k] # invocations[k] \/ parsers'[ParserOf(k)] # parsers[ParserOf(k)]

\* C11: the state of a context changes only in a step of an invocation with
\* exactly one argument; an invocation with more than one argument raises
\* ValueError and one with None or empty args returns continue_processing =
\* True, and neither constructs or calls a parser or changes a context state.
C11_OnlySingleArgument ==
    /\ [][\A c \in Contexts :
            state'[c] # state[c]
                => \E k \in Invocations :
                      /\ Single(invocations[k].args)
                      /\ invocations[k].context = c
                      /\ invocations[k].pc = "run"]_vars
    /\ [][\A k \in Invocations :
            (Steps(k) /\ ~Single(invocations'[k].args))
                => parsers' = parsers /\ state' = state]_vars
    /\ [](\A k \in Invocations :
            invocations[k].pc \in {"done", "raised"}
                => /\ TooMany(invocations[k].args)
                      => invocations[k].pc = "raised" /\ invocations[k].returned = ValueError
                   /\ Falsy(invocations[k].args)
                      => invocations[k].pc = "done" /\ invocations[k].returned = Continue)

\* an invocation with two arguments has raised ValueError on a context that
\* holds the result of an earlier invocation
C11_Witness ==
    /\ invocations["A"].pc = "raised"
    /\ invocations["A"].returned = ValueError
    /\ Len(invocations["A"].args.items) = 2
    /\ state[invocations["A"].context].opa_policy_context # Missing

-----------------------------------------------------------------------------
(* C12 *)

\* the one argument of a single-argument payload
TheArgument(args) == args.items[1].value

\* the state of context c with the parse of value stored under the two keys,
\* and nothing else of the plugin in it
StateWith(c, value) ==
    [InitialState(c) EXCEPT !.opa_policy_context = [kubectlcmd |-> FreshParse(str(value))]]

\* C12: when an invocation with one argument, made after any sequence of
\* invocations, has returned, it has returned continue_processing = True and
\* state['opa_policy_context']['kubectlcmd'] of its context is the parse of
\* str(argument) (for the int 42, of "42"): the result replaces whatever an
\* earlier invocation stored.
C12_LatestResult ==
    Single(invocations["A"].args)
        => /\ invocations["A"].pc # "raised"
           /\ invocations["A"].pc = "done"
                 => /\ invocations["A"].returned = Continue
                    /\ state[invocations["A"].context] =
                          StateWith(invocations["A"].context, TheArgument(invocations["A"].args))
                    /\ TheArgument(invocations["A"].args) = [int |-> 42]
                          => state[invocations["A"].context].opa_policy_context
                                = [kubectlcmd |-> FreshParse(<<"4", "2">>)]

\* a later invocation, with the int 42 as its argument, has returned; its
\* context holds the parse of "42" and the other context the result of an
\* earlier invocation
C12_Witness ==
    /\ invocations["A"].n >= 2
    /\ invocations["A"].pc = "done"
    /\ Single(invocations["A"].args)
    /\ TheArgument(invocations["A"].args) = [int |-> 42]
    /\ state[invocations["A"].context].opa_policy_context
          = [kubectlcmd |-> ReturnValue([EmptyCommand EXCEPT !.resource = <<"4", "2">>])]
    /\ \E c \in Contexts :
          /\ c # invocations["A"].context
          /\ state[c].opa_policy_context # Missing

-----------------------------------------------------------------------------
(* C13 *)

\* the characters of s up to its first whitespace
RECURSIVE FirstToken(_)
FirstToken(s) ==
    IF s = <<>> \/ isspace(Head(s)) THEN <<>> ELSE <<Head(s)>> \o FirstToken(Tail(s))

Called == pc # "idle" \/ result # NoResult

\* C13: kubectl is stripped only when it is the whole first token of the
\* input; when the first token is longer than kubectl, the tokens parsed are
\* those of the input with that token left intact.
C13_LiteralLeadingToken ==
    Called
        => LET stripped == strip(command_string) IN
           IF FirstToken(stripped) = Kubectl
           THEN tokens = _tokenize(strip(SliceFrom(stripped, 7)))
           ELSE tokens = _tokenize(stripped)

-----------------------------------------------------------------------------
(* C14 *)

\* C14: in the verb scan, a leading flag token that is immediately followed
\* by a token not starting with "-" consumes that token too, whatever the
\* flag is, so that the token is never looked at as the verb.
C14_LeadingFlagTakesNext ==
    [][(/\ pc = "scan"
        /\ FlagToken
        /\ HasNextToken(tokens, i)
        /\ ~startswith(At(tokens, i + 1), Dash))
            => i' >= i + 2]_vars

-----------------------------------------------------------------------------
(* C15 *)

\* the other invocations, if called at all, use other contexts than k
SeparateContext(k) ==
    \A j \in Invocations \ {k} :
        invocations[j].pc = "idle" \/ invocations[j].context # invocations[k].context

\* C15: under every interleaving of two invocations, a step of one invocation
\* leaves the parser of the other as it is, and an invocation with one
\* argument that has returned, on a context the other does not use, leaves in
\* that context the parse of its own argument.
C15_NoSharedParser ==
    /\ [](\A k \in Invocations :
            (/\ invocations[k].pc = "done"
             /\ Single(invocations[k].args)
             /\ SeparateContext(k))
                => state[invocations[k].context] =
                      StateWith(invocations[k].context, TheArgument(invocations[k].args)))
    /\ [][\A k \in Invocations :
            invocations'[k] # invocations[k]
                => \A j \in Invocations \ {k} :
                      parsers'[ParserOf(j)] = parsers[ParserOf(j)]]_vars

\* invocation A has returned and its context holds the parse of its argument,
\* while invocation B, called with another argument on the other context, is
\* in the middle of its parse
C15_Witness ==
    /\ invocations["A"].pc = "done"
    /\ Single(invocations["A"].args)
    /\ invocations["B"].pc = "run"
    /\ parsers[ParserOf("B")].pc = "classify"
    /\ Single(invocations["B"].args)
    /\ invocations["A"].context # invocations["B"].context
    /\ TheArgument(invocations["A"].args) = [str |-> W_kubectl_get_n_x]
    /\ TheArgument(invocations["B"].args) = [str |-> W_logs_p]
    /\ state[invocations["A"].context] =
          StateWith(invocations["A"].context, [str |-> W_kubectl_get_n_x])
    /\ state[invocations["B"].context] = InitialState(invocations["B"].context)

-----------------------------------------------------------------------------
(* C16 *)

-----------------------------------------------------------------------------
(* C17 *)

\* C17: when the verb is not a direct-argument verb (or is None), the first
\* token the classification loop meets that does not start with "-" becomes
\* the resource and every later one is appended to args, in input order;
\* nothing is classified before the verb position, a resource once set is
\* never assigned again, and a flag step leaves resource and args alone.
C17_ResourceThenArgs ==
    /\ [](pc = "scan" => command.resource = None /\ command.args = <<>>)
    /\ [][(/\ pc = "classify"
            /\ i < Len(tokens)
            /\ ~startswith(At(tokens, i), Dash)
            /\ command.verb \notin DIRECT_ARG_VERBS)
              => IF command.resource = None
                 THEN command'.resource = At(tokens, i) /\ command'.args = command.args
                 ELSE /\ command'.resource = command.resource
                      /\ command'.args = Append(command.args, At(tokens, i))]_vars
    /\ [][(pc \in {"scan", "classify"} /\ command.resource # None)
              => command'.resource = command.resource]_vars
    /\ [][(pc \in {"scan", "classify"} /\ FlagToken)
              => command'.resource = command.resource /\ command'.args = command.args]_vars

\* parse of "pods get logs" has returned: no verb, pods is the resource, get
\* and logs are the arguments, in that order
C17_Witness ==
    /\ Returned_(result)
    /\ tokens = <<W_pods, W_get, W_logs>>
    /\ result.command.verb = None
    /\ result.command.resource = W_pods
    /\ result.command.args = <<W_get, W_logs>>

-----------------------------------------------------------------------------
(* C18 *)

\* the name under which the flag token (no cluster) is listed
NameOf(token) == IF contains(token, "=") THEN split_name(token) ELSE token

\* flags has an entry for the flag token: one named after it, or, for a
\* cluster, one named after its first character
ListedIn(flags, token) ==
    \E m \in 1..Len(flags) :
        flags[m].name = (IF IsCluster(token) THEN <<"-", token[2]>> ELSE NameOf(token))

IsPrefix(s, t) == Len(s) <= Len(t) /\ SubSeq(t, 1, Len(s)) = s

\* flags only grows, at its end, and only in a step on a flag token, which
\* moves the cursor forward; more than one entry comes from a cluster only
FlagsInTokenOrder ==
    /\ [][(pc \in {"scan", "classify"}) => IsPrefix(command.flags, command'.flags)]_vars
    /\ [][(pc \in {"scan", "classify"} /\ command'.flags # command.flags)
            => /\ FlagToken
               /\ i' > i
               /\ Len(command'.flags) > Len(command.flags) + 1 => IsCluster(At(tokens, i))]_vars
    /\ [][(pc \in {"scan", "classify"} /\ FlagToken)
            => Len(command'.flags) > Len(command.flags)]_vars

\* C18 as stated: every token of the input that starts with "-" is listed in
\* flags, and the entries stand in the order of the tokens they come from.
C18_AsStated ==
    /\ FlagsInTokenOrder
    /\ [](Returned_(result)
            => \A k \in 1..Len(tokens) :
                  startswith(tokens[k], Dash) => ListedIn(result.command.flags, tokens[k]))

\* C18, amended: every token that starts with "-", before the verb or after
\* it, is listed in flags unless it lies inside the expression of an earlier
\* selector flag whose parentheses do not balance (it is then part of the
\* selector value); the entries stand in the order of the tokens they come
\* from, several from one token only for a cluster.
C18_FlagsInOrder ==
    /\ FlagsInTokenOrder
    /\ [](Returned_(result)
            => \A k \in 1..Len(tokens) :
                  (startswith(tokens[k], Dash) /\ ~InOpenSelector(tokens, k))
                      => ListedIn(result.command.flags, tokens[k]))

\* parse of "-it get -o" has returned: the cluster before the verb gave -i
\* and -t, the flag after the verb comes third
C18_Witness ==
    /\ Returned_(result)
    /\ tokens = <<W_it, W_get, W_o>>
    /\ result.command.verb = W_get
    /\ result.command.flags = <<Flag(<<"-", "i">>, None), Flag(<<"-", "t">>, None), Flag(W_o, None)>>

-----------------------------------------------------------------------------
(* C19 *)

\* C19: a step on a combined token appends entries that all have the value
\* None, whatever token follows, and leaves namespace as it was.
C19_ClusterWithoutValues ==
    [][(pc \in {"scan", "classify"} /\ i < Len(tokens) /\ IsCluster(At(tokens, i)))
        => /\ \A m \in (Len(command.flags) + 1)..Len(command'.flags) :
                 command'.flags[m].value = None
           /\ command'.namespace = command.namespace]_vars

-----------------------------------------------------------------------------
(* C20 *)

\* the value a selector token at position p of toks (from 1) has when the
\* tokens up to position q went into it
SelectorValue(toks, p, q) ==
    LET parts == (IF contains(toks[p], "=") THEN <<split_value(toks[p])>> ELSE <<>>)
                 \o SubSeq(toks, p + 1, q)
    IN IF parts = <<>> THEN None ELSE join(Space, parts)

\* C20: a step on a selector flag, bare or in the = form, records the flag
\* with the tokens it consumed as its value, and a consumed token starts with
\* "-" only where the parentheses before it do not balance: at depth 0 the
\* collection stops before such a token; and a step on a token starting with
\* "-" records that token as a flag of its own.
C20_SelectorBoundary ==
    /\ [][(pc \in {"scan", "classify"} /\ i < Len(tokens) /\ IsSelectorToken(At(tokens, i)))
            => /\ i' > i
               /\ i' <= Len(tokens)
               /\ \A m \in (i + 2)..i' :
                     startswith(tokens[m], Dash) => BalanceFrom(tokens, i + 1, m) # 0
               /\ command'.flags =
                     Append(command.flags,
                            Flag(NameOf(tokens[i + 1]), SelectorValue(tokens, i + 1, i')))]_vars
    /\ [][(pc \in {"scan", "classify"} /\ FlagToken)
            => ListedIn(command'.flags, At(tokens, i))]_vars

\* parse of "-l=a x -x" has returned: the selector took x and stopped before
\* -x, which is a flag of its own
C20_Witness ==
    /\ Returned_(result)
    /\ tokens = <<W_l_eq_a, W_x, W_minus_x>>
    /\ result.command.flags = <<Flag(W_l, <<"a", " ", "x">>), Flag(W_minus_x, None)>>

-----------------------------------------------------------------------------
(* C21 *)

\* the selector token at position p of toks (from 1) takes its first fragment
\* and the parentheses counted from there on never balance before a later
\* token
NeverBalances(toks, p) ==
    /\ p < Len(toks)
    /\ BalanceFrom(toks, p, p + 1) # 0 \/ ~startswith(toks[p + 1], Dash)
    /\ \A m \in (p + 2)..Len(toks) : BalanceFrom(toks, p, m) # 0

\* C21: the collection of a selector flag stops before the end of the input
\* only at depth 0; when the parentheses never balance, the step on the
\* selector flag takes every remaining token, those starting with "-"
\* included, into the one value and leaves namespace alone, and with the
\* cursor at the end nothing more is recorded.
C21_OpenGroupAbsorbs ==
    /\ [][(pc \in {"scan", "classify"} /\ i < Len(tokens) /\ IsSelectorToken(At(tokens, i)))
            => /\ i' < Len(tokens) => BalanceFrom(tokens, i + 1, i' + 1) = 0
               /\ NeverBalances(tokens, i + 1)
                     => /\ i' = Len(tokens)
                        /\ command'.flags =
                              Append(command.flags,
                                     Flag(NameOf(tokens[i + 1]),
                                          SelectorValue(tokens, i + 1, Len(tokens))))
                        /\ command'.namespace = command.namespace]_vars
    /\ [][(pc \in {"scan", "classify"} /\ ~(i < Len(tokens)))
            => command'.flags = command.flags /\ command'.namespace = command.namespace]_vars

\* parse of "-l (a --namespace=b" has returned: the namespace flag is part of
\* the selector value, is no entry of flags and has set no namespace
C21_Witness ==
    /\ Returned_(result)
    /\ tokens = <<W_l, W_open, W_namespace_eq_b>>
    /\ result.command.flags = <<Flag(W_l, join(Space, <<W_open, W_namespace_eq_b>>))>>
    /\ result.command.namespace = None

-----------------------------------------------------------------------------
(* C22 *)

\* the calls _parse_flag makes for the members of the cluster under the cursor
MemberCalls ==
    IF FlagToken /\ IsCombined(At(tokens, i))
    THEN {_parse_single_flag(command, <<"-", ch>>, tokens, i) :
            ch \in {At(tokens, i)[d] : d \in 2..Len(At(tokens, i))}}
    ELSE {}

\* C22: a flag-parser call at cursor i returns a count c with
\* 1 <= c <= len(tokens) - i (the calls for the members of a cluster
\* included); for a selector flag c is 1 plus the number of tokens after the
\* flag token that make up the recorded value, and for any other flag c is 1,
\* or 2 with the token after the flag as the recorded value, so each token the
\* cursor passes is the flag token or captured.
C22_TokenAccounting ==
    [][(pc \in {"scan", "classify"} /\ FlagToken /\ pc' # "raised")
         => LET c == i' - i
                token == At(tokens, i)
            IN /\ 1 <= c /\ c <= Len(tokens) - i
               /\ \A r \in MemberCalls :
                     ~r.raised => 1 <= r.consumed /\ r.consumed <= Len(tokens) - i
               /\ IsSelectorToken(token)
                     => Last(command'.flags) =
                          Flag(NameOf(token), SelectorValue(tokens, i + 1, i + c))
               /\ ~IsSelectorToken(token)
                     => \/ c = 1
                        \/ c = 2 /\ Last(command'.flags).value = At(tokens, i + 1)]_vars

\* parse of "-l (a b) x" and of "-l=a x -o" have returned: the bare selector
\* took two fragments and left x, the = form took x and left -o
C22_Witness ==
    /\ Returned_(result)
    /\ \/ /\ tokens = <<W_l, W_open, W_close>>
          /\ result.command.flags = <<Flag(W_l, join(Space, <<W_open, W_close>>))>>
       \/ /\ tokens = <<W_l_eq_a, W_x, W_o>>
          /\ result.command.flags = <<Flag(W_l, join(Space, <<W_a, W_x>>)), Flag(W_o, None)>>

-----------------------------------------------------------------------------
(* C23 *)

\* the entries a step appends to flags whose value is the token after the
\* cursor
TakenNext ==
    {m \in (Len(command.flags) + 1)..Len(command'.flags) :
        HasNextToken(tokens, i) /\ command'.flags[m].value = At(tokens, i + 1)}

\* C23: a token is used once: when a step on a flag token records the token
\* after it as a value, one entry only gets it, and the cursor passes it, so
\* that no later step makes it the resource, an element of args or the value
\* of another entry.
C23_EveryTokenOnce ==
    [][(pc \in {"scan", "classify"} /\ FlagToken /\ pc' # "raised")
         => /\ Cardinality(TakenNext) <= 1
            /\ TakenNext # {} => i' >= i + 2]_vars

-----------------------------------------------------------------------------
(* C24 *)

\* a token FLAG=X with FLAG a selector flag and X a first fragment
IsEqSelector(token) ==
    /\ contains(token, "=")
    /\ split_name(token) \in SelectorFlags
    /\ split_value(token) # <<>>
    /\ ~startswith(split_value(token), Dash)

\* the tokens with every FLAG=X written as the two tokens FLAG and X
Respelled(toks) ==
    concat([k \in DOMAIN toks |->
               IF IsEqSelector(toks[k])
               THEN <<split_name(toks[k]), split_value(toks[k])>>
               ELSE <<toks[k]>>])

\* C24: what parse returns for an input with selector flags in the = form is
\* what it returns for the same input with each of them written as the flag
\* followed by the fragment: the same selector value, verb, resource, args,
\* namespace and other flags.
C24_SpellingsEquivalent ==
    Returned_(result) => result = FreshParse(join(Space, Respelled(tokens)))

-----------------------------------------------------------------------------
(* C25 *)

\* C25: a structure parse returned holds what it held when it was returned,
\* whatever parse and reset calls the instance served since: its verb,
\* resource, namespace, args and flags are unchanged.
C25_ReturnedIsStable ==
    \A k \in DOMAIN held : held[k].now = held[k].returned

\* a second parse call is running on an instance whose first call
\* returned a namespace: the structure from the first call still holds it
\* while self.command has none yet
C25_Witness ==
    /\ Len(held) = 1
    /\ held[1].returned.namespace # None
    /\ held[1].now.namespace # None
    /\ calls = 2
    /\ pc = "classify"
    /\ command # held[1].returned

-----------------------------------------------------------------------------
(* C26 *)

\* the fields of a command are well formed
WellFormed(cmd) ==
    /\ \A m \in DOMAIN cmd.flags :
          cmd.flags[m].name # <<>> /\ startswith(cmd.flags[m].name, Dash)
    /\ cmd.resource # None => ~startswith(cmd.resource, Dash)
    /\ \A m \in DOMAIN cmd.args : ~startswith(cmd.args[m], Dash)
    /\ cmd.verb # None => cmd.verb \in VERBS

\* C26: in every parse result (and in self.command at every point of a call)
\* every flag name is a non-empty string starting with "-", resource when set
\* and every element of args do not start with "-", and verb when set is a
\* member of VERBS.
C26_WellFormedResult ==
    /\ WellFormed(command)
    /\ Returned_(result) => WellFormed(result.command)

\* parse of "get pods -" has returned: a verb, a resource, and the shortest
\* flag name there is
C26_Witness ==
    /\ Returned_(result)
    /\ tokens = <<W_get, W_pods, W_dash>>
    /\ result.command.verb = W_get
    /\ result.command.resource = W_pods
    /\ Len(result.command.flags) = 1
    /\ result.command.flags[1].name = Dash

====
